---- MODULE Spec2Model ----
(***************************************************************************)
(* The adaptive staircase controller of src/jnd_exps.py (class             *)
(* jnd_experiment): construction, run(), trial_run() and adjust_angle().   *)
(*                                                                         *)
(* Angles are Python floats: IEEE-754 doubles, multiplied and rounded as   *)
(* the processor does.  None is the string "none".  A string is the        *)
(* sequence of the code points of its characters.                          *)
(*                                                                         *)
(* A call of trial_run is four steps: it reads self.angle and draws the    *)
(* stimulus (TrialBegin); it waits through playback and both sleeps and    *)
(* calls input() (trial_prompt); on the typed response it writes the       *)
(* staircase and the log and redraws the plot (trial_answer); and out of   *)
(* the GUI event loop of the redraw it returns (run_count inside run(),    *)
(* trial_return for a direct call).  run() likewise waits in plt.show()    *)
(* before it returns.  The repository starts no thread and registers no    *)
(* callback; a caller's thread or GUI callback may still call adjust_angle *)
(* wherever the program waits, and SpecApi explores such calls at every    *)
(* wait.  Between calls the object accepts any public method; the          *)
(* specifications explore bounded sequences of calls.                      *)
(*                                                                         *)
(* Two messages hold characters outside ASCII (lines 113 and 122): on a    *)
(* console whose encoding lacks them print raises UnicodeEncodeError.      *)
(* Spec and SpecApi are sessions on a console that encodes them;           *)
(* SpecAscii is the same program on a console that does not.               *)
(*                                                                         *)
(* The docstring of trial_run (src/jnd_exps.py:51) is indented one level   *)
(* too little, so the file as it stands does not compile; the model is the *)
(* class with that docstring indented as the body it opens.                *)
(***************************************************************************)
EXTENDS Integers, Sequences, FiniteSets, TLC

\* --------------------------------------------------------------- bounds
\* Largest max_trials an experiment is constructed with (Spec).
MaxTrials == 5
\* Number of trial records up to which calls beyond a first run() (a direct
\* trial_run(), a further run()) are explored.
MaxRecords == 2
\* Number of adjust_angle calls up to which direct calls on an experiment
\* without records are explored (SpecApi).
MaxCalls == 11
\* Number of adjust_angle calls up to which direct calls are explored on an
\* experiment with records or inside a trial (SpecApi).
MaxMixedCalls == 2

\* The reversal count at which run() stops looping.
ReversalLimit == 10

\* ------------------------------------------------ floating-point numbers
\* A Python float is an IEEE-754 double.  A nonzero double is modelled as
\* [s, m, e] with value s * M * 2^e, where s is -1 or 1 and M, the integer
\* significand with 2^52 <= M < 2^53, is written in base 2^15 as the
\* sequence m of four digits, least significant first.  Zero is FZero (the
\* sign of a zero is not kept: no comparison of the source tells -0.0 from
\* 0.0).  Exponent overflow and subnormals are out of the angles' range.

\* a natural number below 2^31 in base 2^15
RECURSIVE BigOfNat(_)
BigOfNat(n) ==
    IF n = 0 THEN <<>> ELSE << n % 32768 >> \o BigOfNat(n \div 32768)

\* without leading zero digits
RECURSIVE BigTrim(_)
BigTrim(a) ==
    IF a # <<>> /\ a[Len(a)] = 0
    THEN BigTrim(SubSeq(a, 1, Len(a) - 1))
    ELSE a

\* a * k + c for a digit-sized k and c
RECURSIVE BigMulSmall(_, _, _)
BigMulSmall(a, k, c) ==
    IF a = <<>>
    THEN BigOfNat(c)
    ELSE LET t == Head(a) * k + c
         IN  << t % 32768 >> \o BigMulSmall(Tail(a), k, t \div 32768)

\* a + b + c for a carry c
RECURSIVE BigAdd(_, _, _)
BigAdd(a, b, c) ==
    IF a = <<>> /\ b = <<>>
    THEN BigOfNat(c)
    ELSE LET x == IF a = <<>> THEN 0 ELSE Head(a)
             y == IF b = <<>> THEN 0 ELSE Head(b)
             t == x + y + c
         IN  << t % 32768 >>
               \o BigAdd(IF a = <<>> THEN a ELSE Tail(a),
                         IF b = <<>> THEN b ELSE Tail(b), t \div 32768)

RECURSIVE BigMulRaw(_, _)
BigMulRaw(a, b) ==
    IF b = <<>>
    THEN <<>>
    ELSE BigAdd(BigMulSmall(a, Head(b), 0), << 0 >> \o BigMulRaw(a, Tail(b)), 0)

BigMul(a, b) == BigTrim(BigMulRaw(a, b))

\* the number of binary digits of a digit
RECURSIVE SmallBits(_)
SmallBits(n) == IF n = 0 THEN 0 ELSE 1 + SmallBits(n \div 2)

BigBits(a) == IF a = <<>> THEN 0 ELSE 15 * (Len(a) - 1) + SmallBits(a[Len(a)])

\* a * 2^s
BigShl(a, s) ==
    [ i \in 1..(s \div 15) |-> 0 ] \o BigMulSmall(a, 2 ^ (s % 15), 0)

\* a \div 2^s
BigShr(a, s) ==
    LET k == s \div 15
        d == 2 ^ (s % 15)
        digit(i) == IF i <= Len(a) THEN a[i] ELSE 0
    IN  BigTrim([ i \in 1..(Len(a) - k) |->
                    (digit(i + k) \div d) + (digit(i + k + 1) % d) * (32768 \div d) ])

\* binary digit i of a (digit 0 is the least significant)
BigBit(a, i) == (a[(i \div 15) + 1] \div (2 ^ (i % 15))) % 2

\* the s least significant binary digits of a are all 0
BigLowZero(a, s) ==
    /\ \A i \in 1..(s \div 15) : a[i] = 0
    /\ (s % 15 = 0 \/ a[(s \div 15) + 1] % (2 ^ (s % 15)) = 0)

\* -1, 0, 1 as a < b, a = b, a > b (a and b without leading zeros)
RECURSIVE BigCmp(_, _)
BigCmp(a, b) ==
    IF Len(a) # Len(b) THEN (IF Len(a) < Len(b) THEN -1 ELSE 1)
    ELSE IF a = <<>> THEN 0
    ELSE IF a[Len(a)] # b[Len(b)] THEN (IF a[Len(a)] < b[Len(b)] THEN -1 ELSE 1)
    ELSE BigCmp(SubSeq(a, 1, Len(a) - 1), SubSeq(b, 1, Len(b) - 1))

\* The double nearest to p * 2^e (ties to even), for an integer p > 0:
\* its significand and exponent.
FRound(p, e) ==
    LET bits == BigBits(p)
    IN  IF bits <= 53
        THEN [ m |-> BigShl(p, 53 - bits), e |-> e - (53 - bits) ]
        ELSE LET r == bits - 53
                 q == BigShr(p, r)
                 up == /\ BigBit(p, r - 1) = 1
                       /\ (~BigLowZero(p, r - 1) \/ q[1] % 2 = 1)
                 q1 == IF up THEN BigAdd(q, <<>>, 1) ELSE q
             IN  IF BigBits(q1) > 53
                 THEN [ m |-> BigShr(q1, 1), e |-> e + r + 1 ]
                 ELSE [ m |-> q1, e |-> e + r ]

FZero == [ s |-> 0, m |-> <<>>, e |-> 0 ]

\* the double n * 2^(-k) for integers n and k >= 0 (float(n) for k = 0)
Float(n, k) ==
    IF n = 0
    THEN FZero
    ELSE LET r == FRound(BigOfNat(IF n < 0 THEN -n ELSE n), -k)
         IN  [ s |-> IF n < 0 THEN -1 ELSE 1, m |-> r.m, e |-> r.e ]

\* a * b, rounded as the processor rounds it
FMul(a, b) ==
    IF a.s = 0 \/ b.s = 0
    THEN FZero
    ELSE LET r == FRound(BigMul(a.m, b.m), a.e + b.e)
         IN  [ s |-> a.s * b.s, m |-> r.m, e |-> r.e ]

\* a < b
FLess(a, b) ==
    LET below(x, y) == IF x.e # y.e THEN x.e < y.e ELSE BigCmp(x.m, y.m) < 0
    IN  IF a.s # b.s THEN a.s < b.s
        ELSE IF a.s = 0 THEN FALSE
        ELSE IF a.s = 1 THEN below(a, b)
        ELSE below(b, a)

FLeq(a, b) == ~FLess(b, a)

\* Python's max(a, b) and min(a, b): the first argument unless the second
\* is strictly larger / smaller.
FMax(a, b) == IF FLess(a, b) THEN b ELSE a
FMin(a, b) == IF FLess(b, a) THEN b ELSE a

\* abs(a), np.abs
FAbs(a) == [ a EXCEPT !.s = IF a.s = 0 THEN 0 ELSE 1 ]

\* sign * a for the int sign in {-1, 1}
FSigned(sign, a) == [ a EXCEPT !.s = sign * a.s ]

\* the literals 0.8 and 1.25 of adjust_angle
F0_8 == [ s |-> 1, m |-> << 6554, 13107, 26214, 204 >>, e |-> -53 ]
F1_25 == Float(5, 2)

\* ------------------------------------------------------------- strings
\* The characters str.strip() removes: those with str.isspace().
Whitespace ==
    { 9, 10, 11, 12, 13, 28, 29, 30, 31, 32, 133, 160, 5760 }
      \cup (8192..8202) \cup { 8232, 8233, 8239, 8287, 12288 }

RECURSIVE lstrip(_)
lstrip(s) == IF s # <<>> /\ Head(s) \in Whitespace THEN lstrip(Tail(s)) ELSE s

RECURSIVE rstrip(_)
rstrip(s) ==
    IF s # <<>> /\ s[Len(s)] \in Whitespace
    THEN rstrip(SubSeq(s, 1, Len(s) - 1))
    ELSE s

\* str.strip() as called on the participant's input
strip(s) == rstrip(lstrip(s))

\* The strings '1' and '2'
Str1 == << 49 >>
Str2 == << 50 >>

\* What the participant may type at the prompt:
\* "1", "2", " 2\r", "\xa01\t", "3", "", " "
Responses ==
    { << 49 >>, << 50 >>, << 32, 50, 13 >>, << 160, 49, 9 >>, << 51 >>, <<>>,
      << 32 >> }

\* ---------------------------------------------------------------- state
VARIABLES
    angle,            \* self.angle: the probe angle (line 25)
    min_angle,        \* self.min_angle (line 26)
    max_angle,        \* self.max_angle (line 27)
    max_trials,       \* self.max_trials (line 28)
    correct_streak,   \* self.correct_streak (line 30)
    reversals,        \* self.reversals (line 31)
    last_direction,   \* self.last_direction: "none", "up" or "down" (line 32)
    history_angle,    \* self.history_angle (line 35)
    history_correct,  \* self.history_correct (line 36)
    trial,            \* run()'s local trial counter (line 119)
    pc,               \* "idle": no call in progress;
                      \* "running": in run() at the while test (line 120);
                      \* "playing": in trial_run, stimulus drawn, waiting
                      \*   in playback or sleep (lines 67-72);
                      \* "input": in trial_run, waiting in input() (line 76);
                      \* "plotting": in trial_run, the trial is logged and
                      \*   update_plot waits in flush_events (line 143);
                      \*   inside run(), trial += 1 (line 123) is to come;
                      \* "showing": in run(), the loop is left and
                      \*   plt.show() waits (line 127);
                      \* "returned": run() has returned (line 128);
                      \* "raised": the latest call ended in an exception
    in_run,           \* TRUE while run() is on the call stack
    cur,              \* <<>>, or <<r>>: the locals order, target_angle and
                      \*   correct_response of the trial_run call in progress
    stdout_utf8,      \* whether sys.stdout can encode the messages
    run_entry,        \* len(self.history_angle) when run() was last entered
    adjust_calls,     \* how many times adjust_angle has been called
    last_adjust,      \* <<>>, or <<difficulty>> of the latest adjust_angle call
    prompts,          \* how many times input() has been called (line 76)
    last_trial        \* <<>>, or <<r>>: the locals of the trial_run call
                      \*   that has just returned

vars == << angle, min_angle, max_angle, max_trials, correct_streak, reversals,
           last_direction, history_angle, history_correct, trial, pc, in_run,
           cur, stdout_utf8, run_entry, adjust_calls, last_adjust, prompts,
           last_trial >>

\* The fields of self that adjust_angle and the staircase update work on.
Self ==
    [ angle |-> angle, min_angle |-> min_angle, max_angle |-> max_angle,
      correct_streak |-> correct_streak, reversals |-> reversals,
      last_direction |-> last_direction,
      adjust_calls |-> adjust_calls, last_adjust |-> last_adjust ]

SetSelf(s) ==
    /\ angle' = s.angle
    /\ correct_streak' = s.correct_streak
    /\ reversals' = s.reversals
    /\ last_direction' = s.last_direction
    /\ adjust_calls' = s.adjust_calls
    /\ last_adjust' = s.last_adjust
    /\ UNCHANGED << min_angle, max_angle >>

\* No call is in progress: the caller may call a public method.
Quiet == { "idle", "returned", "raised" }

\* A call is in progress and waits: in playback or sleep, in input(), in
\* the GUI event loop of flush_events, in plt.show().
Waiting == { "playing", "input", "plotting", "showing" }

\* ----------------------------------------------------------- operations
\* adjust_angle without the "self.last_direction and" test: the first
\* direction set is counted as a change of direction.
adjust_angle_counts_first(self, difficulty) ==
    LET new_angle ==
            IF difficulty
            THEN FMax(self.min_angle, FMul(self.angle, F0_8))
            ELSE FMin(self.max_angle, FMul(self.angle, F1_25))
        new_direction == IF difficulty THEN "down" ELSE "up"
    IN  [ self EXCEPT
            !.angle = new_angle,
            !.reversals = IF new_direction # self.last_direction THEN @ + 1 ELSE @,
            !.last_direction = new_direction,
            !.adjust_calls = @ + 1,
            !.last_adjust = << difficulty >> ]

\* jnd_experiment.adjust_angle(difficulty)
adjust_angle(self, difficulty) ==
    LET new_angle ==
            IF difficulty
            THEN FMax(self.min_angle, FMul(self.angle, F0_8))
            ELSE FMin(self.max_angle, FMul(self.angle, F1_25))
        new_direction == IF difficulty THEN "down" ELSE "up"
        counted ==
            self.last_direction # "none" /\ new_direction # self.last_direction
    IN  [ self EXCEPT
            !.angle = new_angle,
            !.reversals = IF counted THEN @ + 1 ELSE @,
            !.last_direction = new_direction,
            !.adjust_calls = @ + 1,
            !.last_adjust = << difficulty >> ]

\* correct_response with the labels of the second order copied from the first
correct_response_same_labels(order, target_angle) ==
    IF FLess(target_angle, FZero) THEN Str2 ELSE Str1

\* trial_run: the label of the correct answer for a presentation order
\* (0: reference first, target second; 1: target first) and a target angle
correct_response(order, target_angle) ==
    IF order = 0
    THEN IF FLess(target_angle, FZero) THEN Str2 ELSE Str1
    ELSE IF FLess(target_angle, FZero) THEN Str1 ELSE Str2

\* score with the invalid branch setting is_correct = True
score_invalid_true(pp_response, correct) ==
    IF pp_response \notin { Str1, Str2 }
    THEN TRUE
    ELSE pp_response = correct

\* trial_run: scoring of the stripped response
score(pp_response, correct) ==
    IF pp_response \notin { Str1, Str2 }
    THEN FALSE
    ELSE pp_response = correct

\* update_staircase with an else branch that steps down after an error
update_staircase_stepdown(self, is_correct) ==
    IF is_correct
    THEN LET s1 == [ self EXCEPT !.correct_streak = @ + 1 ]
         IN  IF s1.correct_streak >= 2 THEN adjust_angle(s1, FALSE) ELSE s1
    ELSE adjust_angle(self, TRUE)

\* update_staircase calling adjust_angle(difficulty = True) on a streak
update_staircase_harder(self, is_correct) ==
    IF is_correct
    THEN LET s1 == [ self EXCEPT !.correct_streak = @ + 1 ]
         IN  IF s1.correct_streak >= 2 THEN adjust_angle(s1, TRUE) ELSE s1
    ELSE self

\* trial_run: "Updating the Adaptive Staircase"
update_staircase(self, is_correct) ==
    IF is_correct
    THEN LET s1 == [ self EXCEPT !.correct_streak = @ + 1 ]
         IN  IF s1.correct_streak >= 2 THEN adjust_angle(s1, FALSE) ELSE s1
    ELSE self

\* logging that keeps only the previous entry and the new one
log_append_window(history, x) ==
    IF history = <<>> THEN << x >> ELSE << history[Len(history)], x >>

\* trial_run: logging of one value at the end of a history list
log_append(history, x) == Append(history, x)

\* the while condition without the reversal test
loop_condition_trials_only(t, mt, rev) == t < mt

\* run(): the condition of the while loop
loop_condition(t, mt, rev) == t < mt /\ rev < ReversalLimit

\* trial_run, lines 53-64: the target sign and the presentation order are
\* drawn, self.angle is read and the stimulus and its label are fixed.
TrialBegin ==
    \E sign \in {-1, 1}, order \in {0, 1} :
        LET target_angle == FSigned(sign, angle)
        IN  cur' = << [ order |-> order, target_angle |-> target_angle,
                        correct_response |->
                            correct_response(order, target_angle) ] >>

\* trial_run, lines 76-95: the typed response is stripped and scored, the
\* staircase is updated, the trial is logged and update_plot is entered,
\* where flush_events (line 143) runs the GUI event loop.  When the
\* update calls adjust_angle and its message (line 113) cannot be encoded,
\* the exception leaves trial_run, and run(), before the trial is logged.
TrialBody ==
    \E typed \in Responses :
        LET r == cur[1]
            pp_response == strip(typed)
            is_correct == score(pp_response, r.correct_response)
            updated == update_staircase(Self, is_correct)
            raises == updated.adjust_calls # adjust_calls /\ ~stdout_utf8
        IN  /\ SetSelf(updated)
            /\ cur' = <<>>
            /\ IF raises
               THEN /\ pc' = "raised"
                    /\ in_run' = FALSE
                    /\ last_trial' = <<>>
                    /\ UNCHANGED << history_angle, history_correct >>
               ELSE /\ pc' = "plotting"
                    /\ in_run' = in_run
                    /\ history_angle' = log_append(history_angle, r.target_angle)
                    /\ history_correct' = log_append(history_correct, is_correct)
                    /\ last_trial' =
                           << [ order |-> r.order, pp_response |-> pp_response,
                                correct_response |-> r.correct_response,
                                target_angle |-> r.target_angle ] >>

\* ----------------------------------------------------------------- init
\* <<start_angle, min_angle, max_angle>> an experiment is constructed with;
\* __init__ stores them as given.
AngleConfigs ==
    { <<10, 0, 90>>, <<100, 0, 90>>, <<-10, -12, 0>>, <<10, 50, 20>> }

ApiAngleConfigs == { <<10, 0, 90>> }

\* max_trials of the experiments that also receive direct adjust_angle calls
ApiTrialCounts == { 0, 3 }

Constructed(cfg, mt) ==
    /\ angle = Float(cfg[1], 0)
    /\ min_angle = Float(cfg[2], 0)
    /\ max_angle = Float(cfg[3], 0)
    /\ max_trials = mt
    /\ correct_streak = 0
    /\ reversals = 0
    /\ last_direction = "none"
    /\ history_angle = <<>>
    /\ history_correct = <<>>
    /\ trial = 0
    /\ pc = "idle"
    /\ in_run = FALSE
    /\ cur = <<>>
    /\ run_entry = 0
    /\ adjust_calls = 0
    /\ last_adjust = <<>>
    /\ prompts = 0
    /\ last_trial = <<>>

Init ==
    /\ \E cfg \in AngleConfigs, mt \in 0..MaxTrials : Constructed(cfg, mt)
    /\ stdout_utf8 = TRUE

InitApi ==
    /\ \E cfg \in ApiAngleConfigs, mt \in ApiTrialCounts : Constructed(cfg, mt)
    /\ stdout_utf8 = TRUE

InitAscii ==
    /\ \E cfg \in ApiAngleConfigs, mt \in ApiTrialCounts : Constructed(cfg, mt)
    /\ stdout_utf8 = FALSE

\* -------------------------------------------------------------- actions
\* run() is entered, on a new experiment or again after an earlier call
\* ended: the banner is printed and trial = 0.  A run() on an experiment
\* that already has records is explored while the records it can add stay
\* within MaxRecords.
run_start ==
    /\ pc \in Quiet
    /\ history_angle = <<>> \/ Len(history_angle) + max_trials <= MaxRecords
    /\ pc' = "running"
    /\ in_run' = TRUE
    /\ trial' = 0
    /\ run_entry' = Len(history_angle)
    /\ last_trial' = <<>>
    /\ UNCHANGED << angle, min_angle, max_angle, max_trials, correct_streak,
                    reversals, last_direction, history_angle, history_correct,
                    cur, stdout_utf8, adjust_calls, last_adjust, prompts >>

\* run(): the loop condition holds and trial_run() is called (lines
\* 120-121); the call draws its stimulus and starts the playback.
trial_run ==
    /\ pc = "running"
    /\ loop_condition(trial, max_trials, reversals)
    /\ TrialBegin
    /\ pc' = "playing"
    /\ UNCHANGED << angle, min_angle, max_angle, max_trials, correct_streak,
                    reversals, last_direction, history_angle, history_correct,
                    trial, in_run, stdout_utf8, run_entry, adjust_calls,
                    last_adjust, prompts, last_trial >>

\* trial_run() called directly, outside run(); run()'s local counter no
\* longer exists.  Explored up to MaxRecords records and MaxMixedCalls
\* adjust_angle calls.
trial_call ==
    /\ pc \in Quiet
    /\ Len(history_angle) < MaxRecords
    /\ adjust_calls < MaxMixedCalls
    /\ TrialBegin
    /\ pc' = "playing"
    /\ trial' = 0
    /\ run_entry' = 0
    /\ last_trial' = <<>>
    /\ UNCHANGED << angle, min_angle, max_angle, max_trials, correct_streak,
                    reversals, last_direction, history_angle, history_correct,
                    in_run, stdout_utf8, adjust_calls, last_adjust, prompts >>

\* trial_run: both sounds are played and input() is called (lines 67-76).
trial_prompt ==
    /\ pc = "playing"
    /\ pc' = "input"
    /\ prompts' = prompts + 1
    /\ UNCHANGED << angle, min_angle, max_angle, max_trials, correct_streak,
                    reversals, last_direction, history_angle, history_correct,
                    trial, in_run, cur, stdout_utf8, run_entry, adjust_calls,
                    last_adjust, last_trial >>

\* trial_run: a response is typed; the trial is scored, the staircase
\* updated, the trial logged and the plot redrawn.
trial_answer ==
    /\ pc = "input"
    /\ TrialBody
    /\ UNCHANGED << max_trials, trial, stdout_utf8, run_entry, prompts >>

\* A direct trial_run() call returns from update_plot to its caller.
trial_return ==
    /\ pc = "plotting"
    /\ ~in_run
    /\ pc' = "idle"
    /\ last_trial' = <<>>
    /\ UNCHANGED << angle, min_angle, max_angle, max_trials, correct_streak,
                    reversals, last_direction, history_angle, history_correct,
                    trial, in_run, cur, stdout_utf8, run_entry, adjust_calls,
                    last_adjust, prompts >>

\* run(): trial_run returns from update_plot, the trial is reported and
\* counted (lines 121-123).  The report holds a check mark or a cross: when
\* it cannot be encoded the exception leaves run() before trial += 1.
run_count ==
    /\ pc = "plotting"
    /\ in_run
    /\ IF stdout_utf8
       THEN /\ trial' = trial + 1
            /\ pc' = "running"
            /\ in_run' = in_run
       ELSE /\ trial' = trial
            /\ pc' = "raised"
            /\ in_run' = FALSE
    /\ last_trial' = <<>>
    /\ UNCHANGED << angle, min_angle, max_angle, max_trials, correct_streak,
                    reversals, last_direction, history_angle, history_correct,
                    cur, stdout_utf8, run_entry, adjust_calls, last_adjust,
                    prompts >>

\* run(): the loop condition fails, the end is announced and plt.show()
\* is called (lines 120, 125-127).
run_show ==
    /\ pc = "running"
    /\ ~loop_condition(trial, max_trials, reversals)
    /\ pc' = "showing"
    /\ UNCHANGED << angle, min_angle, max_angle, max_trials, correct_streak,
                    reversals, last_direction, history_angle, history_correct,
                    trial, in_run, cur, stdout_utf8, run_entry, adjust_calls,
                    last_adjust, prompts, last_trial >>

\* run(): plt.show() returns and the histories are returned (line 128).
run_finish ==
    /\ pc = "showing"
    /\ pc' = "returned"
    /\ in_run' = FALSE
    /\ UNCHANGED << angle, min_angle, max_angle, max_trials, correct_streak,
                    reversals, last_direction, history_angle, history_correct,
                    trial, cur, stdout_utf8, run_entry, adjust_calls,
                    last_adjust, prompts, last_trial >>

\* adjust_angle() called directly: between calls, or by another thread or
\* a GUI callback wherever a call in progress waits.  Its assignments
\* precede its message (line 113), so they are made even when the message
\* cannot be encoded; the call then ends in an exception, which with no
\* other call in progress is the caller's latest call.  Explored up to
\* MaxCalls calls on an experiment without records and no call in
\* progress, and up to MaxMixedCalls calls otherwise.
adjust_call ==
    /\ pc \in Quiet \cup Waiting
    /\ IF pc \in Quiet /\ history_angle = <<>>
       THEN adjust_calls < MaxCalls
       ELSE adjust_calls < MaxMixedCalls
    /\ \E difficulty \in BOOLEAN : SetSelf(adjust_angle(Self, difficulty))
    /\ pc' = IF pc \in Quiet /\ ~stdout_utf8 THEN "raised" ELSE pc
    /\ last_trial' = <<>>
    /\ UNCHANGED << max_trials, history_angle, history_correct, trial,
                    in_run, cur, stdout_utf8, run_entry, prompts >>

Next ==
    \/ run_start \/ trial_run \/ trial_call \/ trial_prompt \/ trial_answer
    \/ trial_return \/ run_count \/ run_show \/ run_finish

NextApi == Next \/ adjust_call

\* An experiment driven by run() and trial_run() alone.
Spec == Init /\ [][Next]_vars

\* An experiment that also receives direct adjust_angle calls.
SpecApi == InitApi /\ [][NextApi]_vars

\* The same on a console that cannot encode the messages.
SpecAscii == InitAscii /\ [][NextApi]_vars

\* ----------------------------------------------------------- properties
Last(s) == s[Len(s)]

\* The two labels a response is compared with.
Valid == { Str1, Str2 }

\* The direction adjust_angle is documented to take for an argument.
DirectionOf(difficulty) == IF difficulty THEN "down" ELSE "up"

\* A step in which trial_run takes the typed response and completes.
TrialStep == pc = "input" /\ pc' # "input"

\* A step in which trial_run is entered and draws its stimulus.
TrialEntry == cur = <<>> /\ cur' # <<>>

\* The records added since run() was last entered.
Produced == Len(history_angle) - run_entry

\* The trials completed so far: input() was called for each, and for the
\* one in progress once it waits for the response.
Completed == prompts - (IF pc = "input" THEN 1 ELSE 0)

\* The latest trial_run call took a response that is not a label.
InvalidTrial == last_trial # <<>> /\ last_trial[1].pp_response \notin Valid

\* C1: with start_angle = 10, min_angle = 0, max_angle = 90 and the
\* correctness pattern [correct, correct, incorrect, correct, correct], the
\* angles probed at trials 1..5 are 10, 10, 12.5, 12.5, 12.5, the angle after
\* trial 5 is 15.625 and the reversal count is 0 (the step up happens only on
\* the second of two consecutive correct responses).
C1_StreakScenario ==
    ( /\ min_angle = Float(0, 0)
      /\ max_angle = Float(90, 0)
      /\ history_correct = << TRUE, TRUE, FALSE, TRUE, TRUE >>
      /\ FAbs(history_angle[1]) = Float(10, 0) )
    => /\ [ i \in 1..5 |-> FAbs(history_angle[i]) ]
            = << Float(10, 0), Float(10, 0), Float(25, 1), Float(25, 1),
                 Float(25, 1) >>
       /\ angle = Float(125, 3)
       /\ reversals = 0

\* C2: a trial scored incorrect does not call adjust_angle and leaves the
\* probe angle, last_direction and the reversal count unchanged.
C2_IncorrectLeavesStaircase ==
    [][ (TrialStep /\ ~Last(history_correct'))
        => /\ adjust_calls' = adjust_calls
           /\ angle' = angle
           /\ last_direction' = last_direction
           /\ reversals' = reversals ]_vars

C2_Witness ==
    /\ pc = "plotting"
    /\ last_trial # <<>>
    /\ ~Last(history_correct)
    /\ last_direction = "down"
    /\ reversals > 0
    /\ angle # Float(10, 0)

\* C3: run() starts a trial only while fewer than max_trials trials are
\* counted and the reversal count is below 10, and returns exactly when the
\* number of counted trials is >= max_trials or the reversal count is >= 10;
\* a call that returns with the reversal count below 10 has produced exactly
\* max_trials records, and one stopped by the reversal count has produced at
\* most max_trials (fewer when the count reached 10 before max_trials trials).
C3_Termination ==
    /\ [][ (pc = "running" /\ TrialEntry)
           => (trial < max_trials /\ reversals < 10) ]_vars
    /\ [][ (pc = "running" /\ pc' = "showing")
           => (trial >= max_trials \/ reversals >= 10) ]_vars
    /\ [][ (pc = "running" /\ pc' # "running")
           => (pc' = "showing" \/ TrialEntry) ]_vars
    /\ [][ pc = "showing" => (pc' \in { "showing", "returned" }
                                /\ UNCHANGED << history_angle, trial >>) ]_vars
    /\ [](pc \in { "running", "showing", "returned" } => Produced = trial)
    /\ [](pc \in { "showing", "returned" } =>
            /\ Produced <= max_trials
            /\ (reversals < 10 => Produced = max_trials)
            /\ (Produced < max_trials => reversals >= 10))

C3_Witness ==
    /\ pc = "returned"
    /\ reversals >= 10
    /\ Produced > 0
    /\ Produced < max_trials

\* C4: each adjust_angle call whose direction differs from the direction of
\* the previous call adds exactly 1 to the reversal count; the first call and
\* a call repeating the previous direction add nothing; last_direction is the
\* direction of the latest call; nothing else changes either of them.
C4_ReversalCounting ==
    /\ [](last_adjust = <<>> => (last_direction = "none" /\ reversals = 0))
    /\ [](last_adjust # <<>> => last_direction = DirectionOf(last_adjust[1]))
    /\ [][ adjust_calls' = adjust_calls + 1
           => reversals' = reversals +
                (IF  last_adjust # <<>> /\ last_adjust'[1] # last_adjust[1]
                 THEN 1 ELSE 0) ]_vars
    /\ [][ adjust_calls' = adjust_calls
           => (reversals' = reversals /\ last_direction' = last_direction) ]_vars

\* four direct calls that changed direction every time, ending 'down':
\* up, down, up, down
C4_Witness ==
    /\ pc = "idle"
    /\ history_angle = <<>>
    /\ adjust_calls = 4
    /\ last_adjust = << TRUE >>
    /\ reversals = 3
    /\ last_direction = "down"

\* C5: in every state of a session the probe angle lies in
\* [min_angle, max_angle], whatever arguments the constructor was given.
C5_AngleBounded == FLeq(min_angle, angle) /\ FLeq(angle, max_angle)

\* C6: a response that is not "1" or "2" after stripping makes the trial
\* incorrect: input() is called once per trial, no exception ends the
\* trial, the trial is logged with correctness False, run() counts the
\* trial without prompting again, and the loop goes on to the next trial
\* while its condition holds.
C6_InvalidResponse ==
    /\ [](Completed = Len(history_correct))
    /\ [](InvalidTrial => Last(history_correct) = FALSE)
    /\ [][ (TrialStep /\ InvalidTrial')
           => /\ pc' = "plotting"
              /\ Len(history_correct') = Len(history_correct) + 1 ]_vars
    /\ [][ (pc = "plotting" /\ InvalidTrial)
           => /\ pc' = IF in_run THEN "running" ELSE "idle"
              /\ trial' = IF in_run THEN trial + 1 ELSE trial
              /\ prompts' = prompts
              /\ UNCHANGED << history_angle, history_correct >> ]_vars
    /\ []((pc = "running" /\ trial < max_trials /\ reversals < 10)
            => ENABLED trial_run)

C6_Witness ==
    /\ InvalidTrial
    /\ last_trial[1].pp_response = << 51 >>
    /\ Len(history_correct) >= 2
    /\ pc = "plotting"
    /\ in_run
    /\ trial + 1 < max_trials

\* C7: for a nonzero target angle the correct label names the slot holding
\* the more negative of {0, target_angle}, in both presentation orders, and
\* the trial is scored correct exactly when the stripped response is that
\* label.
C7_CorrectLabel ==
    (last_trial # <<>> /\ last_trial[1].target_angle # FZero)
    => LET r == last_trial[1]
           first == IF r.order = 0 THEN FZero ELSE r.target_angle
           second == IF r.order = 0 THEN r.target_angle ELSE FZero
           further_left == IF FLess(first, second) THEN << 49 >> ELSE << 50 >>
       IN  /\ r.correct_response = further_left
           /\ Last(history_correct) = (r.pp_response = further_left)

C7_Witness ==
    /\ last_trial # <<>>
    /\ last_trial[1].order = 1
    /\ FLess(FZero, last_trial[1].target_angle)
    /\ last_trial[1].pp_response = << 50 >>
    /\ Last(history_correct)

\* C8: a session with inverted angle bounds (min_angle > max_angle) fails at
\* construction, so no trial is ever run with such bounds.
C8_InvertedBoundsRejected ==
    ~(FLess(max_angle, min_angle) /\ Len(history_angle) > 0)

\* C9: both histories hold one entry per completed trial: inside run() the
\* records added are the trials counted (one more between the return of
\* trial_run and the count); a trial appends exactly one
\* (target_angle, is_correct) pair, target_angle being the signed angle it
\* read when it drew its stimulus, whatever adjust_angle did to self.angle
\* since; no other step changes the histories.
C9_AppendOnly ==
    /\ [](Len(history_angle) = Completed /\ Len(history_correct) = Completed)
    /\ [](pc \in { "running", "showing", "returned" } => Produced = trial)
    /\ [](pc = "plotting" /\ in_run => Produced = trial + 1)
    /\ [][ TrialEntry => FAbs(cur'[1].target_angle) = FAbs(angle) ]_vars
    /\ [][ (cur # <<>> /\ cur' # <<>>) => cur' = cur ]_vars
    /\ [][ IF TrialStep
           THEN /\ Len(history_angle') = Len(history_angle) + 1
                /\ SubSeq(history_angle', 1, Len(history_angle)) = history_angle
                /\ Last(history_angle') = cur[1].target_angle
                /\ Len(history_correct') = Len(history_correct) + 1
                /\ SubSeq(history_correct', 1, Len(history_correct)) = history_correct
                /\ Last(history_correct') =
                     (last_trial'[1].pp_response = cur[1].correct_response)
           ELSE UNCHANGED << history_angle, history_correct >> ]_vars

\* three records in a run(): the third trial read an angle other than the
\* first, was scored incorrect, and adjust_angle changed self.angle while
\* it waited: the third record is the angle that trial read
C9_Witness ==
    /\ pc = "plotting"
    /\ in_run
    /\ Len(history_angle) = 3
    /\ Len(history_correct) = 3
    /\ last_trial # <<>>
    /\ ~history_correct[3]
    /\ FAbs(history_angle[1]) # FAbs(history_angle[3])
    /\ FAbs(history_angle[3]) # angle

\* C10: in a session driven by run() and trial_run() alone the reversal
\* count is 0, adjust_angle is never called with difficulty = True,
\* last_direction is never 'down', and a run() that returns has counted and
\* produced max_trials trials.
C10_NoReversals ==
    /\ reversals = 0
    /\ last_direction # "down"
    /\ last_adjust # << TRUE >>
    /\ pc = "returned" => (trial = max_trials /\ Produced = max_trials)

C10_Witness ==
    /\ pc = "returned"
    /\ last_direction = "up"
    /\ adjust_calls >= 2
    /\ max_trials >= 3

\* A run() in which adjust_angle(True) was called while the plot of the
\* second trial was redrawn: two correct trials and an incorrect one, all
\* three probing 10 degrees, one reversal.
CallDuringRedraw ==
    /\ pc = "plotting"
    /\ in_run
    /\ history_correct = << TRUE, TRUE, FALSE >>
    /\ \A i \in 1..3 : FAbs(history_angle[i]) = Float(10, 0)
    /\ angle = Float(10, 0)
    /\ last_direction = "down"
    /\ reversals = 1

\* run() entered with the reversal count at 10 already: no trial is run.
C3_EnteredAtLimit ==
    /\ pc = "returned"
    /\ max_trials > 0
    /\ reversals >= 10
    /\ Produced = 0
    /\ prompts = 0

\* On a console that cannot encode the messages, a direct adjust_angle
\* call makes its assignments and ends in an exception.
AsciiCallRaised ==
    /\ pc = "raised"
    /\ prompts = 0
    /\ adjust_calls = 1
    /\ last_direction = "down"
    /\ angle = Float(8, 0)

\* On a console that cannot encode the messages, a trial that steps the
\* angle ends in an exception with the staircase updated and no record
\* appended.
AsciiStepLost ==
    /\ pc = "raised"
    /\ adjust_calls > 0
    /\ correct_streak >= 2
    /\ Len(history_angle) < correct_streak

====
